---------------------------- MODULE Spec2Model ----------------------------
(***************************************************************************)
(* manatcp: the server session (ListenerConn, the accept step of Listener) *)
(* and the client session (Conn) as state machines.                        *)
(*                                                                         *)
(* Goroutines are processes with a program counter; an unbuffered channel  *)
(* operation is one step taken jointly by the sender and the receiver; a   *)
(* closed channel is a flag.  A run-time panic (close of a closed channel, *)
(* send on a closed channel, nil dereference) is recorded in `panicked`    *)
(* and stops the whole process, as an unrecovered panic does in Go.        *)
(***************************************************************************)
EXTENDS Naturals, Sequences, FiniteSets

\* ------------------------------------------------------------------ bounds
NProducers == 2     \* goroutines sending on ListenerConn.PushCh
NClosers == 2       \* goroutines calling ListenerConn.Close
ReadSlots == 2      \* goroutine slots for `go lc.read(readCh)`

Producers == 1..NProducers
Closers == 1..NClosers
Slots == 1..ReadSlots

MaxItems == 3       \* items the client decodes off the stream
MaxCmds == 2        \* Cmd/CmdBg calls the caller makes

HandoffWindow == 2  \* seconds: time.After(2 * time.Second) in Conn.spin

NoPanic == "none"

\* A readWrap with its bookkeeping: id is the decode order, kind tells a push
\* item, a command response or a decode error apart, req is the request a
\* response answers, at is the number of requests issued when it was decoded.
NoOutcome == [id |-> 0, kind |-> "none", die |-> FALSE, req |-> 0, at |-> 0]

NoRet == [via |-> "none", req |-> 0, kind |-> "none", oid |-> 0, oreq |-> 0,
          oat |-> 0, closed |-> FALSE, wdie |-> FALSE, unflushed |-> 0,
          flushTried |-> FALSE]

\* era of a producer that is not in a send.
NoEra == [beforeClosing |-> FALSE, inWindow |-> FALSE]

NoCall == [req |-> 0, bg |-> FALSE, flushTried |-> FALSE, closing |-> FALSE]

VARIABLES
    \* ---- server session (ListenerConn)
    lpc,          \* position of Listener.spin (accept) / ListenerConn.spin
    needsRead,    \* local needsRead of ListenerConn.spin
    rd,           \* read task per slot: unused | spawned | reading | sending
    rdDie,        \* the die flag of the readWrap a read task holds
    closeCh,      \* lc.CloseCh is closed
    pushCh,       \* lc.PushCh is closed
    doneCh,       \* doneClosing is closed
    sconn,        \* lc.conn is closed (by the server)
    serverClient, \* lc.serverClient: "set" | "nil"
    hres,         \* what HandleCmd returned: [sendback, dieCmd]
    prod,         \* producer: idle | sending | panicked
    era,          \* when the producer's current send started
    closer,       \* Close caller: idle | called | panicked
    drain,        \* groundPushCh task: none | running | stopped
    closingCalls, \* number of ServerClient.Closing invocations
    teardowns,    \* number of times the teardown sequence was entered
    panicked,     \* NoPanic, or the panic that ended the process
    version,      \* the ListenerConn source of the session: none | new | old
    writing,      \* number of lc.write calls in progress
    wfail,        \* an lc.write call has returned true (write or flush failed)
    finalResp,    \* response of a closing command: none | pending | tried
    \* ---- client session (Conn)
    cpc,          \* position of Conn.spin
    cur,          \* the outcome Conn.spin holds (item, err, die of its Read)
    waited,       \* seconds the handoff select has waited
    nextId,       \* decode counter: the id of the next decoded outcome
    decoded,      \* the kind of every outcome decoded so far, in decode order
    pushOut,      \* ids received from Conn.PushCh, in order
    cmdOut,       \* ids handed to a cmd call over readCh, in order
    dropped,      \* ids whose handoff window expired unclaimed
    cconn,        \* conn.conn is closed on the client side
    ownerClosed,  \* the owner has called Conn.Close
    cPushCh,      \* Conn.PushCh is closed
    peerGone,     \* the server side has terminated the connection
    callPc,       \* position of the caller inside Conn.cmd
    call,         \* the call in progress: [req, bg, flushTried, closing]
    wbuf,         \* conn.buf.Writer: [data: requests not yet flushed, err: its sticky error]
    stream,       \* requests flushed to the stream, not yet answered
    nextReq,      \* id of the next request
    usedBg,       \* a CmdBg call was made
    lastRet       \* what the latest Cmd/CmdBg call returned (NoRet during a call)

srvVars == <<lpc, needsRead, rd, rdDie, closeCh, pushCh, doneCh, sconn,
             serverClient, hres, prod, era, closer, drain, closingCalls,
             teardowns, panicked, version, writing, wfail, finalResp>>

cliVars == <<cpc, cur, waited, nextId, decoded, pushOut, cmdOut, dropped, cconn,
             ownerClosed, cPushCh, peerGone, callPc, call, wbuf, stream,
             nextReq, usedBg, lastRet>>

vars == <<srvVars, cliVars>>

Running == panicked = NoPanic

\* The session has left the arbitration loop (the code after spinloop).
InTeardown ==
    lpc \in {"t_ground", "t_closing", "in_closing", "t_connclose",
             "t_closedone", "t_closepush", "t_closeclosech", "t_nil", "done"}

ServerInit ==
    /\ lpc = "accept"
    /\ needsRead = TRUE
    /\ rd = [s \in Slots |-> "unused"]
    /\ rdDie = [s \in Slots |-> FALSE]
    /\ closeCh = FALSE
    /\ pushCh = FALSE
    /\ doneCh = FALSE
    /\ sconn = FALSE
    /\ serverClient = "nil"
    /\ hres = [sendback |-> FALSE, dieCmd |-> FALSE]
    /\ prod = [p \in Producers |-> "idle"]
    /\ era = [p \in Producers |-> NoEra]
    /\ closer = [c \in Closers |-> "idle"]
    /\ drain = "none"
    /\ closingCalls = 0
    /\ teardowns = 0
    /\ panicked = NoPanic
    /\ version = "none"
    /\ writing = 0
    /\ wfail = FALSE
    /\ finalResp = "none"

\* ---------------------------------------------------------------- server
\* Listener.spin: the factory's verdict on an accepted connection.  A
\* rejected connection is closed on the spot and its session never runs.
\* The session is a ListenerConn of the new source (three-value HandleCmd)
\* or of the old one, whose Connected returns no flag: every connection
\* gets a session there.
Connected(die) ==
    /\ Running
    /\ lpc = "accept"
    /\ \E v \in {"new", "old"} :
         /\ version' = v
         /\ v = "old" => ~die
    /\ serverClient' = "set"
    /\ IF die
         THEN /\ sconn' = TRUE
              /\ lpc' = "rejected"
         ELSE /\ lpc' = "top"
              /\ UNCHANGED sconn
    /\ UNCHANGED <<needsRead, rd, rdDie, closeCh, pushCh, doneCh, hres, prod,
                   era, closer, drain, closingCalls, teardowns, panicked>>
    /\ UNCHANGED <<writing, wfail, finalResp>>
    /\ UNCHANGED cliVars

\* A loop that starts a read task on every iteration.
LoopTopAlwaysReads ==
    /\ Running
    /\ lpc = "top"
    /\ \E s \in Slots :
         /\ rd[s] = "unused"
         /\ rd' = [rd EXCEPT ![s] = "spawned"]
    /\ needsRead' = FALSE
    /\ lpc' = "select"
    /\ UNCHANGED <<rdDie, closeCh, pushCh, doneCh, sconn, serverClient, hres,
                   prod, era, closer, drain, closingCalls, teardowns, panicked>>
    /\ UNCHANGED <<version, writing, wfail, finalResp>>
    /\ UNCHANGED cliVars

\* ListenerConn.spin, head of the loop: start a read task when one is needed.
LoopTop ==
    /\ Running
    /\ lpc = "top"
    /\ IF needsRead
         THEN \E s \in Slots :
                /\ rd[s] = "unused"
                /\ rd' = [rd EXCEPT ![s] = "spawned"]
         ELSE UNCHANGED rd
    /\ needsRead' = FALSE
    /\ lpc' = "select"
    /\ UNCHANGED <<rdDie, closeCh, pushCh, doneCh, sconn, serverClient, hres,
                   prod, era, closer, drain, closingCalls, teardowns, panicked>>
    /\ UNCHANGED <<version, writing, wfail, finalResp>>
    /\ UNCHANGED cliVars

\* Leaving spinloop: the teardown sequence starts.
BreakLoop ==
    /\ lpc' = "t_ground"
    /\ teardowns' = teardowns + 1

\* select, case rw := <-readCh
SelectRead(s) ==
    /\ Running
    /\ lpc = "select"
    /\ rd[s] = "sending"
    /\ rd' = [rd EXCEPT ![s] = "unused"]
    /\ needsRead' = TRUE
    /\ IF rdDie[s]
         THEN BreakLoop
         ELSE /\ lpc' = "handle"
              /\ UNCHANGED teardowns
    /\ UNCHANGED <<rdDie, closeCh, pushCh, doneCh, sconn, serverClient, hres,
                   prod, era, closer, drain, closingCalls, panicked>>
    /\ UNCHANGED <<version, writing, wfail, finalResp>>
    /\ UNCHANGED cliVars

\* A loop that writes whatever HandleCmd returned.
CallsWriteAlways(sendback, dieCmd) == TRUE

\* A loop that leaves at once when the handler asks for the close.
CallsWriteUnlessClosing(sendback, dieCmd) == sendback /\ ~dieCmd

\* Whether ListenerConn.spin calls lc.write after HandleCmd.  New: `if sendback`.
\* Old (sendback stands for res != nil): `if die { if res != nil { write } }`,
\* and without die lc.write(res) is called whatever res is.
CallsWrite(sendback, dieCmd) ==
    IF version = "new" THEN sendback ELSE sendback \/ ~dieCmd

\* serverClient.HandleCmd returns (res, sendback, dieCmd); in the old version
\* it returns (res, die) and sendback is `res != nil`.
HandleCmd(sendback, dieCmd) ==
    /\ Running
    /\ lpc = "handle"
    /\ hres' = [sendback |-> sendback, dieCmd |-> dieCmd]
    /\ finalResp' = IF sendback /\ dieCmd THEN "pending" ELSE "none"
    /\ IF CallsWrite(sendback, dieCmd)
         THEN /\ lpc' = "write_resp"
              /\ writing' = writing + 1
              /\ UNCHANGED teardowns
         ELSE /\ UNCHANGED writing
              /\ IF dieCmd
                   THEN BreakLoop
                   ELSE /\ lpc' = "top"
                        /\ UNCHANGED teardowns
    /\ UNCHANGED <<needsRead, rd, rdDie, closeCh, pushCh, doneCh, sconn,
                   serverClient, prod, era, closer, drain, closingCalls,
                   panicked>>
    /\ UNCHANGED <<version, wfail>>
    /\ UNCHANGED cliVars

\* A loop that carries on after a failed write of a response.
AfterWriteIgnoresError(dieCmd, dieWrite) == dieCmd

\* ListenerConn.spin after lc.write: `if dieCmd || dieWrite { break spinloop }`
\* for a response, `if die := lc.write(item); die { break spinloop }` for a
\* push item (no close flag of a handler is involved there).
AfterWriteBreaks(dieCmd, dieWrite) == dieCmd \/ dieWrite

\* lc.write(res) returns dieWrite.
WriteResp(dieWrite) ==
    /\ Running
    /\ lpc = "write_resp"
    /\ writing' = writing - 1
    /\ wfail' = (wfail \/ dieWrite)
    /\ finalResp' = IF finalResp = "pending" THEN "tried" ELSE finalResp
    /\ IF AfterWriteBreaks(hres.dieCmd, dieWrite)
         THEN BreakLoop
         ELSE /\ lpc' = "top"
              /\ UNCHANGED teardowns
    /\ UNCHANGED <<needsRead, rd, rdDie, closeCh, pushCh, doneCh, sconn,
                   serverClient, hres, prod, era, closer, drain, closingCalls,
                   panicked>>
    /\ UNCHANGED version
    /\ UNCHANGED cliVars

\* A loop that hands the push item to a task of its own (`go lc.write(item)`)
\* and goes back to its select.
SelectPushAsync(p) ==
    /\ Running
    /\ lpc = "select"
    /\ prod[p] = "sending"
    /\ ~pushCh
    /\ prod' = [prod EXCEPT ![p] = "idle"]
    /\ era' = [era EXCEPT ![p] = NoEra]
    /\ lpc' = "top"
    /\ writing' = writing + 1
    /\ UNCHANGED <<needsRead, rd, rdDie, closeCh, pushCh, doneCh, sconn,
                   serverClient, hres, closer, drain, closingCalls,
                   teardowns, panicked>>
    /\ UNCHANGED <<version, wfail, finalResp>>
    /\ UNCHANGED cliVars

\* select, case item := <-lc.PushCh: the rendezvous with a blocked sender.
\* The loop calls lc.write(item) itself and waits for it to return.
SelectPush(p) ==
    /\ Running
    /\ lpc = "select"
    /\ prod[p] = "sending"
    /\ ~pushCh
    /\ prod' = [prod EXCEPT ![p] = "idle"]
    /\ era' = [era EXCEPT ![p] = NoEra]
    /\ lpc' = "write_push"
    /\ writing' = writing + 1
    /\ UNCHANGED <<needsRead, rd, rdDie, closeCh, pushCh, doneCh, sconn,
                   serverClient, hres, closer, drain, closingCalls,
                   teardowns, panicked>>
    /\ UNCHANGED <<version, wfail, finalResp>>
    /\ UNCHANGED cliVars

\* lc.write(item) of a push item returns die.
WritePush(die) ==
    /\ Running
    /\ lpc = "write_push"
    /\ writing' = writing - 1
    /\ wfail' = (wfail \/ die)
    /\ IF AfterWriteBreaks(FALSE, die)
         THEN BreakLoop
         ELSE /\ lpc' = "top"
              /\ UNCHANGED teardowns
    /\ UNCHANGED <<needsRead, rd, rdDie, closeCh, pushCh, doneCh, sconn,
                   serverClient, hres, prod, era, closer, drain, closingCalls,
                   panicked>>
    /\ UNCHANGED <<version, finalResp>>
    /\ UNCHANGED cliVars

\* select, case <-lc.CloseCh
SelectClose ==
    /\ Running
    /\ lpc = "select"
    /\ closeCh
    /\ BreakLoop
    /\ UNCHANGED <<needsRead, rd, rdDie, closeCh, pushCh, doneCh, sconn,
                   serverClient, hres, prod, era, closer, drain, closingCalls,
                   panicked>>
    /\ UNCHANGED <<version, writing, wfail, finalResp>>
    /\ UNCHANGED cliVars

\* go lc.groundPushCh(doneClosing)
StartGround ==
    /\ Running
    /\ lpc = "t_ground"
    /\ drain' = "running"
    /\ lpc' = "t_closing"
    /\ UNCHANGED <<needsRead, rd, rdDie, closeCh, pushCh, doneCh, sconn,
                   serverClient, hres, prod, era, closer, closingCalls,
                   teardowns, panicked>>
    /\ UNCHANGED <<version, writing, wfail, finalResp>>
    /\ UNCHANGED cliVars

\* A teardown that closes the net.Conn first and invokes Closing afterwards.
CallClosingOnClosedConn ==
    /\ Running
    /\ lpc = "t_closing"
    /\ closingCalls' = closingCalls + 1
    /\ sconn' = TRUE
    /\ lpc' = "in_closing"
    /\ UNCHANGED <<needsRead, rd, rdDie, closeCh, pushCh, doneCh,
                   serverClient, hres, prod, era, closer, drain, teardowns,
                   panicked>>
    /\ UNCHANGED <<version, writing, wfail, finalResp>>
    /\ UNCHANGED cliVars

\* lc.serverClient.Closing() is invoked ...
CallClosing ==
    /\ Running
    /\ lpc = "t_closing"
    /\ closingCalls' = closingCalls + 1
    /\ lpc' = "in_closing"
    /\ UNCHANGED <<needsRead, rd, rdDie, closeCh, pushCh, doneCh, sconn,
                   serverClient, hres, prod, era, closer, drain, teardowns,
                   panicked>>
    /\ UNCHANGED <<version, writing, wfail, finalResp>>
    /\ UNCHANGED cliVars

\* ... and returns (it may block for as long as it likes).
ClosingReturns ==
    /\ Running
    /\ lpc = "in_closing"
    /\ lpc' = "t_connclose"
    /\ UNCHANGED <<needsRead, rd, rdDie, closeCh, pushCh, doneCh, sconn,
                   serverClient, hres, prod, era, closer, drain, closingCalls,
                   teardowns, panicked>>
    /\ UNCHANGED <<version, writing, wfail, finalResp>>
    /\ UNCHANGED cliVars

\* lc.conn.Close()
ConnClose ==
    /\ Running
    /\ lpc = "t_connclose"
    /\ sconn' = TRUE
    /\ lpc' = "t_closedone"
    /\ UNCHANGED <<needsRead, rd, rdDie, closeCh, pushCh, doneCh, serverClient,
                   hres, prod, era, closer, drain, closingCalls, teardowns,
                   panicked>>
    /\ UNCHANGED <<version, writing, wfail, finalResp>>
    /\ UNCHANGED cliVars

\* close(doneClosing)
CloseDone ==
    /\ Running
    /\ lpc = "t_closedone"
    /\ doneCh' = TRUE
    /\ lpc' = "t_closepush"
    /\ UNCHANGED <<needsRead, rd, rdDie, closeCh, pushCh, sconn, serverClient,
                   hres, prod, era, closer, drain, closingCalls, teardowns,
                   panicked>>
    /\ UNCHANGED <<version, writing, wfail, finalResp>>
    /\ UNCHANGED cliVars

\* close(lc.PushCh)
ClosePushCh ==
    /\ Running
    /\ lpc = "t_closepush"
    /\ pushCh' = TRUE
    /\ lpc' = "t_closeclosech"
    /\ UNCHANGED <<needsRead, rd, rdDie, closeCh, doneCh, sconn, serverClient,
                   hres, prod, era, closer, drain, closingCalls, teardowns,
                   panicked>>
    /\ UNCHANGED <<version, writing, wfail, finalResp>>
    /\ UNCHANGED cliVars

\* close(lc.CloseCh): closing a closed channel panics.  It is the last
\* statement of the old spin; the new one goes on to clear serverClient.
CloseCloseCh ==
    /\ Running
    /\ lpc = "t_closeclosech"
    /\ IF closeCh
         THEN /\ panicked' = "close of closed channel"
              /\ UNCHANGED <<closeCh, lpc>>
         ELSE /\ closeCh' = TRUE
              /\ lpc' = IF version = "new" THEN "t_nil" ELSE "done"
              /\ UNCHANGED panicked
    /\ UNCHANGED <<needsRead, rd, rdDie, pushCh, doneCh, sconn, serverClient,
                   hres, prod, era, closer, drain, closingCalls, teardowns>>
    /\ UNCHANGED <<version, writing, wfail, finalResp>>
    /\ UNCHANGED cliVars

\* lc.serverClient = nil
ClearServerClient ==
    /\ Running
    /\ lpc = "t_nil"
    /\ serverClient' = "nil"
    /\ lpc' = "done"
    /\ UNCHANGED <<needsRead, rd, rdDie, closeCh, pushCh, doneCh, sconn, hres,
                   prod, era, closer, drain, closingCalls, teardowns, panicked>>
    /\ UNCHANGED <<version, writing, wfail, finalResp>>
    /\ UNCHANGED cliVars

\* ListenerConn.read: the task runs and calls lc.serverClient.Read.  The field
\* is read with no synchronisation against the teardown's assignment: the
\* task finds the handler, or nil when the assignment came first.
ReadCall(s) ==
    /\ Running
    /\ rd[s] = "spawned"
    /\ IF serverClient = "nil"
         THEN /\ panicked' = "nil pointer dereference"
              /\ UNCHANGED rd
         ELSE /\ rd' = [rd EXCEPT ![s] = "reading"]
              /\ UNCHANGED panicked
    /\ UNCHANGED <<lpc, needsRead, rdDie, closeCh, pushCh, doneCh, sconn,
                   serverClient, hres, prod, era, closer, drain, closingCalls,
                   teardowns>>
    /\ UNCHANGED <<version, writing, wfail, finalResp>>
    /\ UNCHANGED cliVars

\* serverClient.Read returns (item, die); on a closed connection it fails.
ReadReturns(s, die) ==
    /\ Running
    /\ rd[s] = "reading"
    /\ sconn => die
    /\ rd' = [rd EXCEPT ![s] = "sending"]
    /\ rdDie' = [rdDie EXCEPT ![s] = die]
    /\ UNCHANGED <<lpc, needsRead, closeCh, pushCh, doneCh, sconn,
                   serverClient, hres, prod, era, closer, drain, closingCalls,
                   teardowns, panicked>>
    /\ UNCHANGED <<version, writing, wfail, finalResp>>
    /\ UNCHANGED cliVars

\* ListenerConn.read, select case <-lc.CloseCh: the result is given up.
\* The old read is a bare `readCh <- ...` and has no such case.
ReadGivesUp(s) ==
    /\ Running
    /\ version = "new"
    /\ rd[s] = "sending"
    /\ closeCh
    /\ rd' = [rd EXCEPT ![s] = "unused"]
    /\ UNCHANGED <<lpc, needsRead, rdDie, closeCh, pushCh, doneCh, sconn,
                   serverClient, hres, prod, era, closer, drain, closingCalls,
                   teardowns, panicked>>
    /\ UNCHANGED <<version, writing, wfail, finalResp>>
    /\ UNCHANGED cliVars

\* groundPushCh, case <-lc.PushCh: a blocked sender's item is discarded.
GroundRecv(p) ==
    /\ Running
    /\ drain = "running"
    /\ prod[p] = "sending"
    /\ ~pushCh
    /\ prod' = [prod EXCEPT ![p] = "idle"]
    /\ era' = [era EXCEPT ![p] = NoEra]
    /\ UNCHANGED <<lpc, needsRead, rd, rdDie, closeCh, pushCh, doneCh, sconn,
                   serverClient, hres, closer, drain, closingCalls,
                   teardowns, panicked>>
    /\ UNCHANGED <<version, writing, wfail, finalResp>>
    /\ UNCHANGED cliVars

\* groundPushCh, case <-done: return
GroundStops ==
    /\ Running
    /\ drain = "running"
    /\ doneCh
    /\ drain' = "stopped"
    /\ UNCHANGED <<lpc, needsRead, rd, rdDie, closeCh, pushCh, doneCh, sconn,
                   serverClient, hres, prod, era, closer, closingCalls,
                   teardowns, panicked>>
    /\ UNCHANGED <<version, writing, wfail, finalResp>>
    /\ UNCHANGED cliVars

\* The close signal of a running session has fired and its drain task has not
\* been told to stop yet.
InDrainWindow ==
    /\ lpc \notin {"accept", "rejected"}
    /\ closeCh \/ InTeardown
    /\ ~doneCh

\* A producer executes lc.PushCh <- item.  On a closed channel it panics at
\* once; otherwise it blocks until a receiver takes the item.
StartSend(p) ==
    /\ Running
    /\ lpc # "accept"
    /\ prod[p] = "idle"
    /\ era' = [era EXCEPT ![p] = [beforeClosing |-> closingCalls = 0,
                                  inWindow |-> InDrainWindow]]
    /\ IF pushCh
         THEN /\ prod' = [prod EXCEPT ![p] = "panicked"]
              /\ panicked' = "send on closed channel"
         ELSE /\ prod' = [prod EXCEPT ![p] = "sending"]
              /\ UNCHANGED panicked
    /\ UNCHANGED <<lpc, needsRead, rd, rdDie, closeCh, pushCh, doneCh, sconn,
                   serverClient, hres, closer, drain, closingCalls, teardowns>>
    /\ UNCHANGED <<version, writing, wfail, finalResp>>
    /\ UNCHANGED cliVars

\* close(lc.PushCh) wakes every blocked sender with a panic.
SendPanics(p) ==
    /\ Running
    /\ prod[p] = "sending"
    /\ pushCh
    /\ prod' = [prod EXCEPT ![p] = "panicked"]
    /\ panicked' = "send on closed channel"
    /\ UNCHANGED <<lpc, needsRead, rd, rdDie, closeCh, pushCh, doneCh, sconn,
                   serverClient, hres, era, closer, drain, closingCalls,
                   teardowns>>
    /\ UNCHANGED <<version, writing, wfail, finalResp>>
    /\ UNCHANGED cliVars

\* ListenerConn.Close: close(lc.CloseCh), unguarded.
Close(c) ==
    /\ Running
    /\ lpc # "accept"
    /\ closer[c] = "idle"
    /\ IF closeCh
         THEN /\ closer' = [closer EXCEPT ![c] = "panicked"]
              /\ panicked' = "close of closed channel"
              /\ UNCHANGED closeCh
         ELSE /\ closer' = [closer EXCEPT ![c] = "called"]
              /\ closeCh' = TRUE
              /\ UNCHANGED panicked
    /\ UNCHANGED <<lpc, needsRead, rd, rdDie, pushCh, doneCh, sconn,
                   serverClient, hres, prod, era, drain, closingCalls,
                   teardowns>>
    /\ UNCHANGED <<version, writing, wfail, finalResp>>
    /\ UNCHANGED cliVars

ServerNext ==
    \/ \E die \in BOOLEAN : Connected(die)
    \/ LoopTop
    \/ \E s \in Slots : SelectRead(s)
    \/ \E sendback, dieCmd \in BOOLEAN : HandleCmd(sendback, dieCmd)
    \/ \E dieWrite \in BOOLEAN : WriteResp(dieWrite)
    \/ \E p \in Producers : SelectPush(p)
    \/ \E die \in BOOLEAN : WritePush(die)
    \/ SelectClose
    \/ StartGround
    \/ CallClosing
    \/ ClosingReturns
    \/ ConnClose
    \/ CloseDone
    \/ ClosePushCh
    \/ CloseCloseCh
    \/ ClearServerClient
    \/ \E s \in Slots : ReadCall(s)
    \/ \E s \in Slots, die \in BOOLEAN : ReadReturns(s, die)
    \/ \E s \in Slots : ReadGivesUp(s)
    \/ \E p \in Producers : GroundRecv(p)
    \/ GroundStops
    \/ \E p \in Producers : StartSend(p)
    \/ \E p \in Producers : SendPanics(p)
    \/ \E c \in Closers : Close(c)

\* The read tasks that have been started and have not returned.
ReadTasks == {s \in Slots : rd[s] # "unused"}

\* ---------------------------------------------------------------- client
ClientInit ==
    /\ cpc = "read"
    /\ cur = NoOutcome
    /\ waited = 0
    /\ nextId = 1
    /\ decoded = <<>>
    /\ pushOut = <<>>
    /\ cmdOut = <<>>
    /\ dropped = {}
    /\ cconn = FALSE
    /\ ownerClosed = FALSE
    /\ cPushCh = FALSE
    /\ peerGone = FALSE
    /\ callPc = "idle"
    /\ call = NoCall
    /\ wbuf = [data |-> <<>>, err |-> FALSE]
    /\ stream = <<>>
    /\ nextReq = 1
    /\ usedBg = FALSE
    /\ lastRet = NoRet

\* A loop that tests only err: command responses would go to PushCh.
ToCmdPathErrOnly(o) == o.kind = "err"

\* Conn.spin: `err != nil || !conn.client.IsPush(item)` picks the readCh path.
ToCmdPath(o) == o.kind = "err" \/ o.kind # "push"

\* Conn.spin: after the handoff select, `if die { break }`.
AfterHandoff(o) == IF o.die THEN "closeconn" ELSE "read"

\* Conn.spin has decoded a close condition or has left its loop.
ClientClosing ==
    \/ cpc \in {"closeconn", "closepush", "done"}
    \/ cpc = "handoff" /\ cur.die

\* The outcome of one conn.client.Read, routed as Conn.spin routes it.
Route(o) ==
    /\ cur' = o
    /\ decoded' = Append(decoded, o.kind)
    /\ nextId' = nextId + 1
    /\ waited' = 0
    /\ cpc' = IF ToCmdPath(o) THEN "handoff" ELSE "pushing"

\* Read decodes an item: a push, the response to the oldest unanswered
\* request, or something it cannot parse.  The decoder chooses die.
DecodeItem(kind, die) ==
    /\ cpc = "read"
    /\ ~cconn
    /\ nextId <= MaxItems
    /\ IF kind = "resp"
         THEN /\ stream # <<>>
              /\ ~peerGone
              /\ stream' = Tail(stream)
              /\ Route([id |-> nextId, kind |-> kind, die |-> die,
                        req |-> Head(stream), at |-> nextReq])
         ELSE /\ UNCHANGED stream
              /\ Route([id |-> nextId, kind |-> kind, die |-> die,
                        req |-> 0, at |-> nextReq])
    /\ UNCHANGED <<pushOut, cmdOut, dropped, cconn, ownerClosed, cPushCh,
                   peerGone, callPc, call, wbuf, nextReq, usedBg, lastRet>>
    /\ UNCHANGED srvVars

\* Read fails on a stream that either side has closed: an error, die = true.
DecodeIoError ==
    /\ cpc = "read"
    /\ cconn \/ peerGone
    /\ Route([id |-> nextId, kind |-> "err", die |-> TRUE, req |-> 0,
              at |-> nextReq])
    /\ UNCHANGED <<pushOut, cmdOut, dropped, cconn, ownerClosed, cPushCh,
                   peerGone, callPc, call, wbuf, stream, nextReq, usedBg,
                   lastRet>>
    /\ UNCHANGED srvVars

\* The handoff select, case conn.readCh <- &readWrap{...}, met by the
\* receive in Conn.cmd, which returns rw.item, rw.err, rw.die.
Deliver ==
    /\ cpc = "handoff"
    /\ callPc = "waiting"
    /\ cmdOut' = Append(cmdOut, cur.id)
    /\ lastRet' = [via |-> "recv", req |-> call.req, kind |-> cur.kind,
                   oid |-> cur.id, oreq |-> cur.req, oat |-> cur.at,
                   closed |-> cur.die, wdie |-> FALSE,
                   unflushed |-> Len(wbuf.data), flushTried |-> call.flushTried]
    /\ call' = NoCall
    /\ callPc' = "idle"
    /\ cpc' = AfterHandoff(cur)
    /\ cur' = NoOutcome
    /\ UNCHANGED <<waited, nextId, decoded, pushOut, dropped, cconn,
                   ownerClosed, cPushCh, peerGone, wbuf, stream, nextReq,
                   usedBg>>
    /\ UNCHANGED srvVars

\* A second passes with no receiver on readCh.
Tick ==
    /\ cpc = "handoff"
    /\ callPc # "waiting"
    /\ waited < HandoffWindow
    /\ waited' = waited + 1
    /\ UNCHANGED <<cpc, cur, nextId, decoded, pushOut, cmdOut, dropped, cconn,
                   ownerClosed, cPushCh, peerGone, callPc, call, wbuf, stream,
                   nextReq, usedBg, lastRet>>
    /\ UNCHANGED srvVars

\* A loop that keeps offering the outcome after its window has expired.
HandoffTimeoutKeeps ==
    /\ cpc = "handoff"
    /\ callPc # "waiting"
    /\ waited = HandoffWindow
    /\ cur.id \notin dropped
    /\ dropped' = dropped \cup {cur.id}
    /\ UNCHANGED <<cpc, cur, waited, nextId, decoded, pushOut, cmdOut, cconn,
                   ownerClosed, cPushCh, peerGone, callPc, call, wbuf, stream,
                   nextReq, usedBg, lastRet>>
    /\ UNCHANGED srvVars

\* The handoff select, case <-time.After(2 * time.Second): the outcome is
\* dropped.
HandoffTimeout ==
    /\ cpc = "handoff"
    /\ callPc # "waiting"
    /\ waited = HandoffWindow
    /\ dropped' = dropped \cup {cur.id}
    /\ cpc' = AfterHandoff(cur)
    /\ cur' = NoOutcome
    /\ UNCHANGED <<waited, nextId, decoded, pushOut, cmdOut, cconn,
                   ownerClosed, cPushCh, peerGone, callPc, call, wbuf, stream,
                   nextReq, usedBg, lastRet>>
    /\ UNCHANGED srvVars

\* conn.PushCh <- item, met by the application's receive.  The loop goes on
\* to the next Read whatever die was.
PushRecv ==
    /\ cpc = "pushing"
    /\ pushOut' = Append(pushOut, cur.id)
    /\ cur' = NoOutcome
    /\ cpc' = "read"
    /\ UNCHANGED <<waited, nextId, decoded, cmdOut, dropped, cconn,
                   ownerClosed, cPushCh, peerGone, callPc, call, wbuf, stream,
                   nextReq, usedBg, lastRet>>
    /\ UNCHANGED srvVars

\* Conn.spin after the loop: conn.conn.Close()
SpinCloseConn ==
    /\ cpc = "closeconn"
    /\ cconn' = TRUE
    /\ UNCHANGED ownerClosed
    /\ cpc' = "closepush"
    /\ UNCHANGED <<cur, waited, nextId, decoded, pushOut, cmdOut, dropped,
                   cPushCh, peerGone, callPc, call, wbuf, stream, nextReq,
                   usedBg, lastRet>>
    /\ UNCHANGED srvVars

\* A loop that returns without closing PushCh.
SpinReturnsPushChOpen ==
    /\ cpc = "closepush"
    /\ cpc' = "done"
    /\ UNCHANGED <<cur, waited, nextId, decoded, pushOut, cmdOut, dropped,
                   cconn, ownerClosed, cPushCh, peerGone, callPc, call, wbuf,
                   stream, nextReq, usedBg, lastRet>>
    /\ UNCHANGED srvVars

\* Conn.spin after the loop: close(conn.PushCh)
SpinClosePush ==
    /\ cpc = "closepush"
    /\ cPushCh' = TRUE
    /\ cpc' = "done"
    /\ UNCHANGED <<cur, waited, nextId, decoded, pushOut, cmdOut, dropped,
                   cconn, ownerClosed, peerGone, callPc, call, wbuf, stream,
                   nextReq, usedBg, lastRet>>
    /\ UNCHANGED srvVars

\* Conn.Close by the owner.
OwnerClose ==
    /\ ~cconn
    /\ cconn' = TRUE
    /\ ownerClosed' = TRUE
    /\ UNCHANGED <<cpc, cur, waited, nextId, decoded, pushOut, cmdOut,
                   dropped, cPushCh, peerGone, callPc, call, wbuf, stream,
                   nextReq, usedBg, lastRet>>
    /\ UNCHANGED srvVars

\* The server terminates the connection.
PeerCloses ==
    /\ ~peerGone
    /\ peerGone' = TRUE
    /\ UNCHANGED <<cpc, cur, waited, nextId, decoded, pushOut, cmdOut,
                   dropped, cconn, ownerClosed, cPushCh, callPc, call, wbuf,
                   stream, nextReq, usedBg, lastRet>>
    /\ UNCHANGED srvVars

\* Conn.Cmd (bg = FALSE) or Conn.CmdBg (bg = TRUE) is called.
CmdStart(bg) ==
    /\ callPc = "idle"
    /\ nextReq <= MaxCmds
    /\ call' = [req |-> nextReq, bg |-> bg, flushTried |-> FALSE,
                closing |-> ClientClosing]
    /\ nextReq' = nextReq + 1
    /\ usedBg' = (usedBg \/ bg)
    /\ callPc' = "write"
    /\ lastRet' = NoRet
    /\ UNCHANGED <<cpc, cur, waited, nextId, decoded, pushOut, cmdOut,
                   dropped, cconn, ownerClosed, cPushCh, peerGone, wbuf,
                   stream>>
    /\ UNCHANGED srvVars

\* A cmd that reports every encode failure as a closed connection.
WriteErrAlwaysClosed(die) == TRUE

\* Conn.cmd: `return nil, err, die` hands on the flag conn.client.Write gave.
WriteErrClosed(die) == die

\* What a call returns without an outcome of the read loop.
Returned(via, closed, wdie, buf) ==
    [via |-> via, req |-> call.req, kind |-> "none", oid |-> 0, oreq |-> 0,
     oat |-> 0, closed |-> closed, wdie |-> wdie, unflushed |-> Len(buf.data),
     flushTried |-> call.flushTried]

\* Conn.cmd: conn.client.Write(conn.buf.Writer, cmd) returns (err, die): a
\* marshalling error (die = false) or a failed write to the buffered writer
\* (die = true), whose error sticks.  On an error cmd returns; on success a
\* background call returns here too.
CmdWrite(ok, die) ==
    /\ callPc = "write"
    /\ ok => ~die
    /\ wbuf.err => ~ok
    /\ IF ~ok
         THEN /\ lastRet' = Returned("write_err", WriteErrClosed(die), die, wbuf)
              /\ call' = NoCall
              /\ callPc' = "idle"
              /\ wbuf' = [wbuf EXCEPT !.err = wbuf.err \/ die]
         ELSE /\ wbuf' = [wbuf EXCEPT !.data = Append(wbuf.data, call.req)]
              /\ IF call.bg
                   THEN /\ lastRet' = Returned("bg_ok", FALSE, FALSE, wbuf')
                        /\ call' = NoCall
                        /\ callPc' = "idle"
                   ELSE /\ callPc' = "flush"
                        /\ UNCHANGED <<lastRet, call>>
    /\ UNCHANGED <<cpc, cur, waited, nextId, decoded, pushOut, cmdOut,
                   dropped, cconn, ownerClosed, cPushCh, peerGone, stream,
                   nextReq, usedBg>>
    /\ UNCHANGED srvVars

\* Conn.cmd: conn.buf.Writer.Flush() moves the buffer to the stream, or
\* fails (always so on a connection closed on this side) and keeps its error.
CmdFlush(ok) ==
    /\ callPc = "flush"
    /\ (cconn \/ wbuf.err) => ~ok
    /\ IF ok
         THEN /\ stream' = stream \o wbuf.data
              /\ wbuf' = [wbuf EXCEPT !.data = <<>>]
              /\ call' = [call EXCEPT !.flushTried = TRUE]
              /\ callPc' = "flushed"
              /\ UNCHANGED lastRet
         ELSE /\ lastRet' = [Returned("flush_err", TRUE, FALSE, wbuf)
                               EXCEPT !.flushTried = TRUE]
              /\ call' = NoCall
              /\ callPc' = "idle"
              /\ wbuf' = [wbuf EXCEPT !.err = TRUE]
              /\ UNCHANGED stream
    /\ UNCHANGED <<cpc, cur, waited, nextId, decoded, pushOut, cmdOut,
                   dropped, cconn, ownerClosed, cPushCh, peerGone, nextReq,
                   usedBg>>
    /\ UNCHANGED srvVars

\* Conn.cmd: the caller blocks in `select { case rw := <-conn.readCh }`.
CmdWait ==
    /\ callPc = "flushed"
    /\ callPc' = "waiting"
    /\ UNCHANGED <<cpc, cur, waited, nextId, decoded, pushOut, cmdOut,
                   dropped, cconn, ownerClosed, cPushCh, peerGone, call, wbuf,
                   stream, nextReq, usedBg, lastRet>>
    /\ UNCHANGED srvVars

ClientNext ==
    \/ \E kind \in {"push", "resp", "err"}, die \in BOOLEAN : DecodeItem(kind, die)
    \/ DecodeIoError
    \/ Deliver
    \/ Tick
    \/ HandoffTimeout
    \/ PushRecv
    \/ SpinCloseConn
    \/ SpinClosePush
    \/ OwnerClose
    \/ PeerCloses
    \/ \E bg \in BOOLEAN : CmdStart(bg)
    \/ \E ok, die \in BOOLEAN : CmdWrite(ok, die)
    \/ \E ok \in BOOLEAN : CmdFlush(ok)
    \/ CmdWait

Init == ServerInit /\ ClientInit

ServerSpec == Init /\ [][ServerNext]_vars

ClientSpec == Init /\ [][ClientNext]_vars

\* The read loop goroutine is scheduled whenever it can take a step, time
\* passes, and the application keeps receiving from PushCh.  Nothing is
\* assumed of what the stream delivers or of the caller of Cmd.
ClientFairness ==
    /\ WF_vars(DecodeIoError)
    /\ WF_vars(Deliver)
    /\ WF_vars(Tick)
    /\ WF_vars(HandoffTimeout)
    /\ WF_vars(PushRecv)
    /\ WF_vars(SpinCloseConn)
    /\ WF_vars(SpinClosePush)

ClientFairSpec == Init /\ [][ClientNext]_vars /\ ClientFairness

\* The server's goroutines keep running, handler calls return, and the
\* select of ListenerConn.spin, which picks at random among its ready cases,
\* does not pass the close case over for ever.  No fairness is asked of
\* serverClient.Read on an open connection, of the producers or of the
\* callers of Close.
ServerFairness ==
    /\ WF_vars(LoopTop)
    /\ WF_vars(\E sendback, dieCmd \in BOOLEAN : HandleCmd(sendback, dieCmd))
    /\ WF_vars(\E dieWrite \in BOOLEAN : WriteResp(dieWrite))
    /\ WF_vars(\E die \in BOOLEAN : WritePush(die))
    /\ SF_vars(SelectClose)
    /\ WF_vars(StartGround)
    /\ WF_vars(CallClosing)
    /\ WF_vars(ClosingReturns)
    /\ WF_vars(ConnClose)
    /\ WF_vars(CloseDone)
    /\ WF_vars(ClosePushCh)
    /\ WF_vars(CloseCloseCh)
    /\ WF_vars(ClearServerClient)
    /\ WF_vars(GroundStops)
    /\ \A s \in Slots : WF_vars(ReadCall(s))
    /\ \A s \in Slots : WF_vars(sconn /\ ReadReturns(s, TRUE))
    /\ \A s \in Slots : WF_vars(ReadGivesUp(s))
    /\ \A p \in Producers : WF_vars(SendPanics(p))

ServerFairSpec == Init /\ [][ServerNext]_vars /\ ServerFairness

\* ------------------------------------------------------------ properties
Range(q) == {q[i] : i \in 1..Len(q)}

Increasing(q) == \A i, j \in 1..Len(q) : i < j => q[i] < q[j]

\* C1: however often ListenerConn.Close is called, the teardown runs at most
\* once and no close is ever performed on an already closed channel.
C1_CloseNeverPanics ==
    /\ teardowns <= 1
    /\ panicked # "close of closed channel"

\* C2: a send on PushCh that a producer started before Closing was invoked
\* never becomes a send on a closed channel.
C2_EarlySendNeverFaults ==
    \A p \in Producers : prod[p] = "panicked" => ~era[p].beforeClosing

\* C3: every send on PushCh started after the close signal fired and before
\* the drain task stopped completes by being received (by the arbitration
\* loop or by the drain task): none is ended by a panic instead, after which
\* nothing receives it any more.
C3_WindowSendsComplete ==
    \A p \in Producers : prod[p] = "panicked" => ~era[p].inWindow

\* C10: whenever the server has closed the connection's net.Conn, Closing was
\* invoked exactly once before, and it is never invoked twice.
C10_ClosingBeforeConnClose ==
    /\ closingCalls <= 1
    /\ sconn => closingCalls = 1

\* The parts of C4 that do not depend on what happens to an unclaimed outcome:
\* PushCh carries push items only, readCh carries the rest, both in decode
\* order, every push item whose delivery is over is on PushCh, and nothing
\* is on both paths or both delivered and dropped.
PartitionInOrder ==
    /\ \A i \in 1..Len(pushOut) : decoded[pushOut[i]] = "push"
    /\ \A i \in 1..Len(cmdOut) : decoded[cmdOut[i]] # "push"
    /\ Increasing(pushOut)
    /\ Increasing(cmdOut)
    /\ Range(pushOut) \cap (Range(cmdOut) \cup dropped) = {}
    /\ Range(cmdOut) \cap dropped = {}
    /\ \A id \in 1..Len(decoded) :
          (id # cur.id /\ decoded[id] = "push") => id \in Range(pushOut)

\* C4 as stated: push items go to PushCh in decode order, and every non-push
\* item or decode error is delivered to a Cmd call, in decode order, and none
\* is on both paths.
C4_EveryOutcomeDelivered ==
    /\ PartitionInOrder
    /\ \A id \in 1..Len(decoded) :
          (id # cur.id /\ decoded[id] # "push") => id \in Range(cmdOut)

\* C4 amended: push items go to PushCh in decode order; every non-push item or
\* decode error is either delivered to a Cmd call, in decode order, or dropped
\* when its handoff window expires; none is on both paths.
C4_PartitionOrDropped ==
    /\ PartitionInOrder
    /\ \A id \in 1..Len(decoded) :
          (id # cur.id /\ decoded[id] # "push") =>
              id \in (Range(cmdOut) \cup dropped)

\* C4 witness: push and non-push outcomes were decoded in turn, two push items
\* reached PushCh, a Cmd call got an outcome and another outcome was dropped.
C4_Witness ==
    /\ Len(pushOut) >= 2
    /\ Len(cmdOut) >= 1
    /\ dropped # {}
    /\ \E i \in Range(pushOut), j \in Range(cmdOut) \cup dropped : j < i

\* C5: with Cmd calls issued one after another and no CmdBg, a Cmd call
\* returns the outcome of its own request: never the response to another
\* request, never an outcome decoded before the request was issued.
C5_OwnResponse ==
    (lastRet.via = "recv" /\ ~usedBg) =>
        /\ lastRet.oat > lastRet.req
        /\ lastRet.kind = "resp" => lastRet.oreq = lastRet.req

\* C6: a Cmd call issued on a session that was already closing is never left
\* blocked on readCh once the read loop has exited (nothing sends on readCh
\* any more, so the call would never return).
C6_ClosingCmdReturns ==
    ~(callPc = "waiting" /\ call.closing /\ cpc = "done")

\* C7: an outcome whose handoff window expired is never delivered to a Cmd
\* call: neither handed over readCh nor returned by a later call.
C7_ExpiredNeverDelivered ==
    /\ dropped \cap Range(cmdOut) = {}
    /\ lastRet.via = "recv" => lastRet.oid \notin dropped
    /\ cpc = "handoff" => cur.id \notin dropped

\* C7 witness: an outcome expired unclaimed and a Cmd call made later has
\* returned a later outcome.
C7_Witness ==
    /\ lastRet.via = "recv"
    /\ \E d \in dropped : d < lastRet.oid /\ decoded[d] # "push"

\* C8: when CmdBg returns without error, nothing of the command is left in
\* the write buffer: it was flushed to the stream.
C8_BgFlushed ==
    lastRet.via = "bg_ok" => lastRet.unflushed = 0

\* C9 as stated: a failed encode makes Cmd return at once with closed = true,
\* whatever flag the encode gave; a failed flush returns closed = true.
C9_WriteErrorAlwaysClosed ==
    /\ lastRet.via = "write_err" => (lastRet.closed /\ ~lastRet.flushTried)
    /\ lastRet.via = "flush_err" => lastRet.closed

\* C9 amended: a failed encode makes Cmd return at once, without a flush and
\* without an outcome of the read loop, with the close flag the encode gave;
\* a failed flush returns closed = true.
C9_WriteErrorHandsOnFlag ==
    /\ lastRet.via = "write_err" =>
          /\ lastRet.closed = lastRet.wdie
          /\ ~lastRet.flushTried
          /\ lastRet.kind = "none"
    /\ lastRet.via = "flush_err" => (lastRet.closed /\ lastRet.kind = "none")

\* C9 witness: the encode failed with its close flag false (a marshalling
\* error) and Cmd has returned.
C9_Witness ==
    /\ lastRet.via = "write_err"
    /\ ~lastRet.wdie
    /\ callPc = "idle"

\* C11: once the owner has called Close, or the server has terminated the
\* connection, and PushCh keeps being drained, the read loop exits and PushCh
\* is eventually closed.
C11_CloseReachesPushCh ==
    (ownerClosed \/ peerGone) ~> cPushCh

\* C11 witness: the owner called Close on a connection the server had not
\* terminated, the loop's decode failed and PushCh is closed.
C11_Witness ==
    /\ ownerClosed
    /\ ~peerGone
    /\ cPushCh
    /\ decoded # <<>>
    /\ decoded[Len(decoded)] = "err"

\* C12: HandleCmd, Write and Closing of one session never run at the same
\* time, only Read runs on a task of its own: a stream write is always the
\* arbitration loop's own call, at most one is in progress, and the loop
\* selects its next event only after that write has returned, so that
\* items reach the wire in the order the loop selected them.
C12_LoopIsTheOnlyWriter ==
    /\ writing <= 1
    /\ writing = 1 <=> lpc \in {"write_resp", "write_push"}
    /\ writing = 1 => lpc \notin {"select", "handle", "in_closing"}

\* C12 witness: the loop is inside the Write of a push item while the read
\* task is inside Read, after an earlier command was handled.
C12_Witness ==
    /\ lpc = "write_push"
    /\ writing = 1
    /\ needsRead = FALSE
    /\ \E s \in Slots : rd[s] = "reading"
    /\ hres.sendback

\* C13: when HandleCmd returns a response together with the close flag, the
\* write of that response is attempted before Closing is invoked and before
\* the net.Conn is closed, and once it was attempted the session is in its
\* teardown whether the write succeeded or failed.
C13_FinalResponseBeforeClosing ==
    /\ (closingCalls > 0 \/ sconn) => finalResp # "pending"
    /\ finalResp = "pending" => writing = 1
    /\ finalResp = "tried" => InTeardown

\* C13 witness: the response of a closing command was written without error
\* and the teardown has since invoked Closing and closed the net.Conn.
C13_Witness ==
    /\ finalResp = "tried"
    /\ ~wfail
    /\ closingCalls = 1
    /\ sconn

\* C14: whenever a decode of the client read loop signals that the connection
\* should be closed, the loop leaves after that outcome's delivery attempt,
\* whatever the outcome is (a push item included), and never decodes again.
C14_CloseFlagEndsLoop ==
    [][(cur.die /\ cpc \in {"handoff", "pushing"} /\ cpc' # cpc)
          => cpc' = "closeconn"]_vars

\* C15: the teardown of a session runs at most once and in a fixed order: the
\* drain task is started before Closing is invoked, Closing has returned
\* before the stream is closed, the drain task is told to stop only after
\* the stream is closed, and the teardown closes PushCh and CloseCh only
\* after the drain task was told to stop.
C15_TeardownOrder ==
    /\ teardowns <= 1
    /\ closingCalls <= 1
    /\ closingCalls > 0 => drain # "none"
    /\ (sconn /\ lpc # "rejected") =>
          /\ closingCalls = 1
          /\ lpc \in {"t_closedone", "t_closepush", "t_closeclosech", "t_nil",
                      "done"}
    /\ doneCh => sconn
    /\ drain = "stopped" => doneCh
    /\ pushCh => doneCh
    /\ lpc \in {"t_nil", "done"} => (doneCh /\ pushCh /\ closeCh)

\* C15 witness: a teardown ran to its end, with the drain task stopped.
C15_Witness ==
    /\ lpc = "done"
    /\ teardowns = 1
    /\ closingCalls = 1
    /\ drain = "stopped"
    /\ sconn /\ doneCh /\ pushCh /\ closeCh

\* C16: a failed write or flush of a response or of a push item always puts
\* the session into its teardown, with no further read started, command
\* handled or item written, also when HandleCmd's close flag was false.
C16_WriteFailureCloses ==
    wfail =>
      /\ InTeardown
      /\ writing = 0
      /\ teardowns = 1

\* C16 witness: a write failed although the handler had not asked for the
\* close, and the teardown has invoked Closing.
C16_Witness ==
    /\ wfail
    /\ ~hres.dieCmd
    /\ hres.sendback
    /\ closingCalls = 1

\* C17 as stated: when the handler indicates no response (send flag false, or
\* a nil response of the two-value HandleCmd), the loop calls no write for
\* that command, whether or not the close flag is set.
C17_NoResponseNoWrite ==
    lpc = "write_resp" => hres.sendback

\* C17 amended: the loop calls no write for a command whose handler set the
\* send flag to false (three-value HandleCmd) or returned a nil response
\* together with the close flag (two-value HandleCmd); a nil response
\* returned without the close flag by the two-value HandleCmd is passed to
\* Write like any other.
C17_NoWriteUnlessOldKeepsOpen ==
    (lpc = "write_resp" /\ ~hres.sendback) => (version = "old" /\ ~hres.dieCmd)

\* C17 witness: the handler returned no response together with the close
\* flag, and the teardown invoked Closing with no write made.
C17_Witness ==
    /\ ~hres.sendback
    /\ hres.dieCmd
    /\ closingCalls = 1
    /\ ~wfail
    /\ writing = 0

\* C18 as stated: while the session is in its loop there is never more than
\* one read task, whenever the loop waits on its select a read task is in
\* flight or has a result pending, and receiving a push item neither starts a
\* second read nor cancels the outstanding one.
C18_ExactlyOneRead ==
    /\ Cardinality(ReadTasks) <= 1
    /\ lpc \in {"select", "write_push"} =>
          (Cardinality(ReadTasks) = 1 /\ ~needsRead)

\* C18 amended: there is never more than one read task; until the close
\* signal fires, a read task is in flight or has a result pending whenever
\* the loop waits on its select, and receiving a push item neither starts a
\* second read nor cancels the outstanding one.  Once the close signal has
\* fired, the read task of the new version may give its result up, and the
\* loop then waits with no read outstanding.
C18_OneReadUntilCloseSignal ==
    /\ Cardinality(ReadTasks) <= 1
    /\ lpc \in {"select", "write_push"} => ~needsRead
    /\ (lpc \in {"select", "write_push"} /\ (~closeCh \/ version = "old")) =>
          Cardinality(ReadTasks) = 1

\* C18 witness: the loop took a push item while a read result was pending,
\* and is writing it with that read task still there and no new one started.
C18_Witness ==
    /\ lpc = "write_push"
    /\ ~closeCh
    /\ hres.sendback
    /\ \E s \in Slots : rd[s] = "sending"
    /\ Cardinality(ReadTasks) = 1

\* C19: once the close signal of a session in its loop has fired, the session
\* eventually leaves the loop and runs its teardown (Closing is invoked and
\* the stream is closed), even if the outstanding read never completes and
\* producers keep sending.
C19_CloseSignalLeadsToTeardown ==
    (closeCh /\ lpc \in {"top", "select", "handle", "write_resp", "write_push"})
        ~> (closingCalls = 1 /\ sconn)

\* C20: after the teardown has finished, every task of the session eventually
\* terminates: the read task is not left blocked for ever handing its result
\* to the loop that has exited, and the drain task returns.
C20_TasksTerminate ==
    (lpc = "done") ~> (ReadTasks = {} /\ drain = "stopped")

\* C21: the read task never calls Read through lc.serverClient after the
\* teardown has cleared that field: a task started by the loop and not yet
\* run when the loop leaves does not dereference the cleared handler.
C21_ReadNeverOnClearedHandler ==
    panicked # "nil pointer dereference"
=============================================================================
